---- MODULE Spec2Model ----
(***************************************************************************)
(* Model of the appointment dashboard (src/dashboard/src/App.js): the      *)
(* Dashboard component's state, its fetch cycle and timers, and the pure   *)
(* helpers it renders with (getTodayPacific, getTomorrowPacific,           *)
(* formatTime, groupAppointmentsByCustomer, isAppointmentCurrent,          *)
(* filterAppointmentsByDate).                                              *)
(*                                                                         *)
(* JavaScript strings are modelled as sequences of one-character strings,  *)
(* so that split, parseInt, Number, padStart, template literals and        *)
(* localeCompare are computed as the code computes them.  JavaScript       *)
(* numbers are records [nan, v]: an integer v, or NaN.                     *)
(***************************************************************************)
EXTENDS Integers, Sequences, FiniteSets, TLC

VARIABLES
    appointments,          \* useState([])    : the raw rows last stored
    loading,               \* useState(true)  : the loading flag
    currentTime,           \* useState(new Date()) : the header clock
    mounted,               \* whether the mount effect (useEffect) has run
    inflight,              \* fetches awaiting the store: records [id, today, tomorrow]
    issued,                \* number of store queries issued so far
    history,               \* settled fetchAppointments calls, in order of settling
    todayAppointments,     \* render: grouped, filtered list for today
    tomorrowAppointments,  \* render: grouped list for tomorrow
    screen,                \* render: what <main> shows (loading, or the two columns of cards)
    now,                   \* the current instant, as Pacific wall-clock [date, mins]
    tzOffset,              \* the process's own timezone, minutes east of UTC
    supabase,              \* whether the store client was configured at startup
    engine,                \* the JavaScript engine's Array.prototype.sort
    hourCycle              \* how the engine's Intl prints hour 0 with hour12:false

vars == <<appointments, loading, currentTime, mounted, inflight, issued, history,
          todayAppointments, tomorrowAppointments, screen,
          now, tzOffset, supabase, engine, hourCycle>>

envVars == <<tzOffset, supabase, engine, hourCycle>>

(***************************************************************************)
(* JavaScript values                                                       *)
(***************************************************************************)
\* null / undefined: one-element sequences no real string equals (the
\* elements of a real string are single characters).
Null == <<"<null>">>
Undefined == <<"<undefined>">>

\* JavaScript truthiness of a string-or-absent value ('' is falsy too).
Falsy(s) == s = Null \/ s = Undefined \/ s = <<>>

NaN == [nan |-> TRUE, v |-> 0]
Num(n) == [nan |-> FALSE, v |-> n]

NumAdd(a, n) == IF a.nan THEN NaN ELSE Num(a.v + n)
NumSub(a, b) == IF a.nan \/ b.nan THEN NaN ELSE Num(a.v - b.v)
NumMulAdd(a, k, b) == IF a.nan \/ b.nan THEN NaN ELSE Num(a.v * k + b.v)
\* Every comparison with NaN is false, except !== which is true.
NumEq(a, n) == ~a.nan /\ a.v = n
NumLt(a, n) == ~a.nan /\ a.v < n
NumGt(a, n) == ~a.nan /\ a.v > n
NumGe(a, n) == ~a.nan /\ a.v >= n
NumLe(a, n) == ~a.nan /\ a.v <= n

Digits == <<"0", "1", "2", "3", "4", "5", "6", "7", "8", "9">>
IsDigit(c) == \E i \in 1..10 : Digits[i] = c
DigitVal(c) == (CHOOSE i \in 1..10 : Digits[i] = c) - 1

RECURSIVE NatToStr(_)
NatToStr(n) == IF n < 10 THEN <<Digits[n + 1]>>
               ELSE NatToStr(n \div 10) \o <<Digits[(n % 10) + 1]>>

\* Number.prototype.toString and the string conversion of template literals.
NumToStr(a) == IF a.nan THEN <<"N", "a", "N">>
               ELSE IF a.v < 0 THEN <<"-">> \o NatToStr(-a.v)
               ELSE NatToStr(a.v)

\* `${x}` for a string-or-undefined x.
ToStr(s) == IF s = Undefined THEN <<"u", "n", "d", "e", "f", "i", "n", "e", "d">>
            ELSE IF s = Null THEN <<"n", "u", "l", "l">>
            ELSE s

\* String.prototype.padStart(2, '0')
PadStart2(s) == IF Len(s) >= 2 THEN s ELSE IF Len(s) = 1 THEN <<"0">> \o s ELSE <<"0", "0">>

RECURSIVE DropSpaces(_)
DropSpaces(s) == IF s # <<>> /\ Head(s) = " " THEN DropSpaces(Tail(s)) ELSE s

RECURSIVE Reverse(_)
Reverse(s) == IF s = <<>> THEN <<>> ELSE Reverse(Tail(s)) \o <<Head(s)>>

\* String.prototype.trim
Trim(s) == Reverse(DropSpaces(Reverse(DropSpaces(s))))

\* The value of the longest prefix of digits of s, given the value so far.
RECURSIVE DigitPrefix(_, _)
DigitPrefix(s, acc) == IF s # <<>> /\ IsDigit(Head(s))
                       THEN DigitPrefix(Tail(s), acc * 10 + DigitVal(Head(s)))
                       ELSE acc

SignOf(s) == IF s # <<>> /\ Head(s) = "-" THEN -1 ELSE 1
Unsigned(s) == IF s # <<>> /\ Head(s) \in {"-", "+"} THEN Tail(s) ELSE s

leadingInteger(sign, t) ==
    IF t = <<>> \/ ~IsDigit(Head(t)) THEN NaN ELSE Num(sign * DigitPrefix(t, 0))

wholeInteger(sign, t) ==
    IF t = <<>> \/ \E i \in 1..Len(t) : ~IsDigit(t[i]) THEN NaN
    ELSE Num(sign * DigitPrefix(t, 0))

parseIntOfString(s) == leadingInteger(SignOf(s), Unsigned(s))

\* parseInt(x) with no radix: the argument is converted to a string, leading
\* white space and one sign are skipped, and the leading decimal digits are
\* read; NaN when there are none.
parseInt(x) == parseIntOfString(DropSpaces(ToStr(x)))

numberOfString(s) == IF s = <<>> THEN Num(0) ELSE wholeInteger(SignOf(s), Unsigned(s))

\* Number(x) on a string: white space is trimmed, '' is 0, a signed run of
\* decimal digits is its value and anything else is NaN.
Number(x) == numberOfString(Trim(ToStr(x)))

\* String.prototype.split(sep) for a one-character separator: the pieces
\* between the separators, empty pieces included.
RECURSIVE SplitFrom(_, _, _)
SplitFrom(s, sep, piece) ==
    IF s = <<>> THEN <<piece>>
    ELSE IF Head(s) = sep THEN <<piece>> \o SplitFrom(Tail(s), sep, <<>>)
    ELSE SplitFrom(Tail(s), sep, Append(piece, Head(s)))

Split(s, sep) == SplitFrom(s, sep, <<>>)

\* Array element access (and destructuring): undefined past the end.
At(arr, i) == IF i <= Len(arr) THEN arr[i] ELSE Undefined

AM == <<"A", "M">>
PM == <<"P", "M">>
NoTime == <<"N", "o", " ", "t", "i", "m", "e">>

(***************************************************************************)
(* formatTime (TimeCorrector)                                              *)
(***************************************************************************)
\* const [time, period] = timeString.split(' ');
\* const [hours, minutes] = time.split(':');
timeFields(parts) == [hm |-> Split(At(parts, 1), ":"), period |-> At(parts, 2)]
clockFields(f) == [hours |-> At(f.hm, 1), minutes |-> At(f.hm, 2), period |-> f.period]
parseTime(timeString) == clockFields(timeFields(Split(timeString, " ")))

\* Convert to 24-hour format (the two ifs exclude each other by the period).
to24Hour(hour, period) ==
    IF period = PM /\ ~NumEq(hour, 12) THEN NumAdd(hour, 12)
    ELSE IF period = AM /\ NumEq(hour, 12) THEN Num(0)
    ELSE hour

hour24Of(t) == to24Hour(parseInt(t.hours), t.period)

\* (mutant) the day rollover is left out.
rolloverMissing(hour24) == hour24

\* Handle day rollover
rollover(hour24) == IF NumLt(hour24, 0) THEN NumAdd(hour24, 24) ELSE hour24

\* Convert back to 12-hour format
period12(hour24) == IF NumGe(hour24, 12) THEN PM ELSE AM
displayHour(hour24) == IF NumGt(hour24, 12) THEN NumAdd(hour24, -12)
                       ELSE IF NumEq(hour24, 0) THEN Num(12) ELSE hour24

to12Hour(hour24, minutes) ==
    NumToStr(displayHour(hour24)) \o <<":">> \o ToStr(minutes) \o <<" ">> \o period12(hour24)

\* Subtract 7 hours to convert UTC to Pacific
correctedTime(t) == to12Hour(rollover(NumAdd(hour24Of(t), -7)), t.minutes)

\* No operation of the try block throws on a string, so the catch branch
\* (return timeString) is never taken for the string inputs modelled here.
formatTime(appointment) ==
    IF Falsy(appointment.appointment_time_12h) \/ appointment.appointment_time_12h = NoTime
    THEN NoTime
    ELSE correctedTime(parseTime(appointment.appointment_time_12h))

(***************************************************************************)
(* Calendar dates and the clock                                            *)
(***************************************************************************)
\* A calendar date (the key 'YYYY-MM-DD') is <<year, month, day>>.
IsLeap(y) == (y % 4 = 0 /\ y % 100 # 0) \/ y % 400 = 0

DaysInMonth(y, m) == IF m = 2 THEN (IF IsLeap(y) THEN 29 ELSE 28)
                     ELSE IF m \in {4, 6, 9, 11} THEN 30 ELSE 31

NextDay(d) == IF d[3] < DaysInMonth(d[1], d[2]) THEN <<d[1], d[2], d[3] + 1>>
              ELSE IF d[2] < 12 THEN <<d[1], d[2] + 1, 1>>
              ELSE <<d[1] + 1, 1, 1>>

PrevDay(d) == IF d[3] > 1 THEN <<d[1], d[2], d[3] - 1>>
              ELSE IF d[2] > 1 THEN <<d[1], d[2] - 1, DaysInMonth(d[1], d[2] - 1)>>
              ELSE <<d[1] - 1, 12, 31>>

\* Date.prototype.toISOString().split('T')[0] of a Date whose fields in the
\* process's own timezone are dobj: the calendar date of the same instant in UTC.
toISODate(dobj) ==
    LET utc == dobj.mins - tzOffset
    IN IF utc < 0 THEN PrevDay(dobj.date)
       ELSE IF utc >= 1440 THEN NextDay(dobj.date)
       ELSE dobj.date

\* new Date(date.toLocaleString("en-US", {timeZone: "America/Los_Angeles"})):
\* the Pacific wall-clock reading of the instant, parsed back as a time of the
\* process's own timezone.
getPacificDate == [date |-> now.date, mins |-> now.mins]

getTodayPacific == toISODate(getPacificDate)

\* tomorrow.setDate(tomorrow.getDate() + 1) moves the local date by one day.
getTomorrowPacific ==
    LET today == getPacificDate
    IN toISODate([date |-> NextDay(today.date), mins |-> today.mins])

(***************************************************************************)
(* isAppointmentCurrent (VisibilityFilter)                                 *)
(***************************************************************************)
\* now.toLocaleString('en-US', {timeZone, hour12: false, hour: '2-digit',
\* minute: '2-digit'}): engines whose hour cycle for hour12:false is h24
\* write the hour after midnight as 24, the others as 00.
currentPacificString ==
    LET h == now.mins \div 60
        shown == IF h = 0 /\ hourCycle = "h24" THEN 24 ELSE h
    IN PadStart2(NatToStr(shown)) \o <<":">> \o PadStart2(NatToStr(now.mins % 60))

\* const [h, m] = 'HH:MM'.split(':').map(Number); h * 60 + m
minutesOf(parts) == NumMulAdd(Number(At(parts, 1)), 60, Number(At(parts, 2)))
minutesOfDay(hhmm) == minutesOf(Split(hhmm, ":"))

\* `${hour24.toString().padStart(2, '0')}:${minutes}`
aptTime24(t) == PadStart2(NumToStr(hour24Of(t))) \o <<":">> \o ToStr(t.minutes)

\* The time compared is appointment.appointment_time_12h as stored (the
\* grouped appointment carries the row's string; formatTime is applied only
\* when the card is drawn).  No operation of the try block throws on a string.
isAppointmentCurrent(appointment) ==
    IF Falsy(appointment.appointment_time_12h) THEN TRUE
    ELSE NumLe(NumSub(minutesOfDay(currentPacificString),
                      minutesOfDay(aptTime24(parseTime(appointment.appointment_time_12h)))),
               180)

(***************************************************************************)
(* groupAppointmentsByCustomer (Aggregator and Sorter)                     *)
(***************************************************************************)
WalkIn == <<"W", "a", "l", "k", "-", "i", "n">>

\* apt.customer_name || `${first || ''} ${last || ''}`.trim() || 'Walk-in'
customerNameOf(apt) ==
    LET first == IF Falsy(apt.client_first_name) THEN <<>> ELSE apt.client_first_name
        last == IF Falsy(apt.client_last_name) THEN <<>> ELSE apt.client_last_name
        full == Trim(first \o <<" ">> \o last)
    IN IF ~Falsy(apt.customer_name) THEN apt.customer_name
       ELSE IF ~Falsy(full) THEN full
       ELSE WalkIn

\* if (!grouped[key]) grouped[key] = {...}: grouped is the object's entries
\* in insertion order (customer names are ordinary names: not integer-like
\* keys, and not names of Object.prototype properties).
seedGroup(grouped, key, apt) ==
    IF \E i \in 1..Len(grouped) : grouped[i].customer_name = key
    THEN grouped
    ELSE Append(grouped, [customer_name |-> key,
                          appointment_time_12h |-> apt.appointment_time_12h,
                          services |-> <<>>,
                          times |-> <<>>])

\* (mutant) the service is put in front of the list instead of pushed.
pushServiceFront(grouped, key, apt) ==
    IF Falsy(apt.offering_name) THEN grouped
    ELSE [i \in 1..Len(grouped) |->
            IF grouped[i].customer_name = key
            THEN [grouped[i] EXCEPT !.services = <<apt.offering_name>> \o @,
                                    !.times = <<apt.appointment_time_12h>> \o @]
            ELSE grouped[i]]

\* if (apt.offering_name) { services.push(...); times.push(...) }
pushService(grouped, key, apt) ==
    IF Falsy(apt.offering_name) THEN grouped
    ELSE [i \in 1..Len(grouped) |->
            IF grouped[i].customer_name = key
            THEN [grouped[i] EXCEPT !.services = Append(@, apt.offering_name),
                                    !.times = Append(@, apt.appointment_time_12h)]
            ELSE grouped[i]]

\* One forEach step.
groupStep(grouped, apt) ==
    pushService(seedGroup(grouped, customerNameOf(apt), apt), customerNameOf(apt), apt)

RECURSIVE groupRows(_, _)
groupRows(grouped, rows) ==
    IF rows = <<>> THEN grouped
    ELSE groupRows(groupStep(grouped, Head(rows)), Tail(rows))

\* Intl collation (root/en) of the characters that occur in time strings:
\* white space, then punctuation, then digits, then letters; letters differ
\* by case only at the third level, lower case first.
CollationOrder == <<" ", "-", ":", "0", "1", "2", "3", "4", "5", "6", "7", "8", "9",
                    "a", "b", "c", "d", "e", "f", "g", "h", "i", "j", "k", "l", "m",
                    "n", "o", "p", "q", "r", "s", "t", "u", "v", "w", "x", "y", "z">>
UpperCase == <<"A", "B", "C", "D", "E", "F", "G", "H", "I", "J", "K", "L", "M",
               "N", "O", "P", "Q", "R", "S", "T", "U", "V", "W", "X", "Y", "Z">>

IsUpper(c) == \E i \in 1..26 : UpperCase[i] = c
ToLower(c) == IF IsUpper(c) THEN CollationOrder[13 + CHOOSE i \in 1..26 : UpperCase[i] = c] ELSE c
PrimaryRank(c) == CHOOSE i \in 1..Len(CollationOrder) : CollationOrder[i] = ToLower(c)

RECURSIVE comparePrimary(_, _)
comparePrimary(a, b) ==
    IF a = <<>> THEN (IF b = <<>> THEN 0 ELSE -1)
    ELSE IF b = <<>> THEN 1
    ELSE IF PrimaryRank(Head(a)) < PrimaryRank(Head(b)) THEN -1
    ELSE IF PrimaryRank(Head(a)) > PrimaryRank(Head(b)) THEN 1
    ELSE comparePrimary(Tail(a), Tail(b))

RECURSIVE compareCase(_, _)
compareCase(a, b) ==
    IF a = <<>> \/ b = <<>> THEN 0
    ELSE IF ~IsUpper(Head(a)) /\ IsUpper(Head(b)) THEN -1
    ELSE IF IsUpper(Head(a)) /\ ~IsUpper(Head(b)) THEN 1
    ELSE compareCase(Tail(a), Tail(b))

\* String.prototype.localeCompare
localeCompare(a, b) ==
    IF comparePrimary(a, b) # 0 THEN comparePrimary(a, b) ELSE compareCase(a, b)

\* The comparator handed to sort.
compareAppointments(a, b) ==
    IF Falsy(a.appointment_time_12h) THEN 1
    ELSE IF Falsy(b.appointment_time_12h) THEN -1
    ELSE localeCompare(a.appointment_time_12h, b.appointment_time_12h)

(***************************************************************************)
(* Array.prototype.sort                                                    *)
(***************************************************************************)
\* compareAppointments answers 1 for two appointments without a time,
\* whichever comes first: it is not a consistent comparator, and the order
\* sort then produces is implementation-defined.  Two engines are modelled.

\* V8 (TimSort; arrays shorter than 64 are one run completed by binary
\* insertion).  CountAndMakeRun: the run at the start of the array, reversed
\* when it is strictly descending.
RECURSIVE runEnd(_, _, _)
runEnd(a, idx, descending) ==
    IF idx > Len(a) THEN Len(a)
    ELSE LET order == compareAppointments(a[idx], a[idx - 1])
         IN IF (descending /\ order >= 0) \/ (~descending /\ order < 0)
            THEN idx - 1
            ELSE runEnd(a, idx + 1, descending)

reverseRun(a, descending, run) ==
    [arr |-> IF descending
             THEN Reverse(SubSeq(a, 1, run)) \o SubSeq(a, run + 1, Len(a))
             ELSE a,
     run |-> run]

makeRun(a, descending) == reverseRun(a, descending, runEnd(a, 3, descending))

countAndMakeRun(a) ==
    IF Len(a) < 2 THEN [arr |-> a, run |-> Len(a)]
    ELSE makeRun(a, compareAppointments(a[2], a[1]) < 0)

\* The binary search of BinaryInsertionSort (left and right count from 0).
RECURSIVE insertionPoint(_, _, _, _)
insertionPoint(a, pivot, left, right) ==
    IF left >= right THEN left
    ELSE IF compareAppointments(pivot, a[left + ((right - left) \div 2) + 1]) < 0
    THEN insertionPoint(a, pivot, left, left + ((right - left) \div 2))
    ELSE insertionPoint(a, pivot, left + ((right - left) \div 2) + 1, right)

movePivot(a, start, left) ==
    SubSeq(a, 1, left) \o <<a[start + 1]>> \o SubSeq(a, left + 1, start)
        \o SubSeq(a, start + 2, Len(a))

RECURSIVE binaryInsertionSort(_, _)
binaryInsertionSort(a, start) ==
    IF start >= Len(a) THEN a
    ELSE binaryInsertionSort(movePivot(a, start, insertionPoint(a, a[start + 1], 0, start)),
                             start + 1)

completeRun(made) == binaryInsertionSort(made.arr, made.run)

timSort(a) == completeRun(countAndMakeRun(a))

\* SpiderMonkey (merge sort; short arrays are sorted by insertion): the item
\* moves left past every element e with comparefn(e, item) > 0.
RECURSIVE insertLeft(_, _, _)
insertLeft(sorted, item, j) ==
    IF j = 0 \/ compareAppointments(sorted[j], item) <= 0
    THEN SubSeq(sorted, 1, j) \o <<item>> \o SubSeq(sorted, j + 1, Len(sorted))
    ELSE insertLeft(sorted, item, j - 1)

RECURSIVE insertionSort(_, _)
insertionSort(sorted, rest) ==
    IF rest = <<>> THEN sorted
    ELSE insertionSort(insertLeft(sorted, Head(rest), Len(sorted)), Tail(rest))

arraySort(a) == IF engine = "timsort" THEN timSort(a) ELSE insertionSort(<<>>, a)

groupAppointmentsByCustomer(rows) == arraySort(groupRows(<<>>, rows))

(***************************************************************************)
(* Rendering                                                               *)
(***************************************************************************)
\* An absent appointment_date is <<>>.  new Date('YYYY-MM-DD') reads a
\* date-only key as UTC midnight and toISOString writes it in UTC, so the
\* key of a valid date-only value is that value.
filterAppointmentsByDate(appts, dateString) ==
    LET keep(apt) == apt.appointment_date # <<>> /\ apt.appointment_date = dateString
    IN SelectSeq(appts, keep)

todayList(appts) ==
    SelectSeq(groupAppointmentsByCustomer(filterAppointmentsByDate(appts, getTodayPacific)),
              isAppointmentCurrent)

tomorrowList(appts) ==
    groupAppointmentsByCustomer(filterAppointmentsByDate(appts, getTomorrowPacific))

\* AppointmentCard: the corrected time, the customer and the services.
AppointmentCard(appointment) ==
    [time |-> formatTime(appointment),
     customer_name |-> appointment.customer_name,
     services |-> appointment.services]

AppointmentColumn(list) == [i \in 1..Len(list) |-> AppointmentCard(list[i])]

\* The component body run with the new state: the two lists, and <main>
\* (the loading line, or the two columns of cards).
Render(appts, isLoading) ==
    /\ todayAppointments' = todayList(appts)
    /\ tomorrowAppointments' = tomorrowList(appts)
    /\ screen' = IF isLoading
                 THEN [loading |-> TRUE, today |-> <<>>, tomorrow |-> <<>>]
                 ELSE [loading |-> FALSE,
                       today |-> AppointmentColumn(todayAppointments'),
                       tomorrow |-> AppointmentColumn(tomorrowAppointments')]

(***************************************************************************)
(* The component: construction, timers and the fetch cycle                 *)
(***************************************************************************)
MaxFetches == 2
MaxDays == 0

InitState(Clocks, Offsets, Configured, Engines, Cycles) ==
    /\ now \in Clocks
    /\ tzOffset \in Offsets
    /\ supabase \in Configured
    /\ engine \in Engines
    /\ hourCycle \in Cycles
    /\ appointments = <<>>
    /\ loading = TRUE
    /\ currentTime = now
    /\ mounted = FALSE
    /\ inflight = {}
    /\ issued = 0
    /\ history = <<>>
    /\ todayAppointments = <<>>
    /\ tomorrowAppointments = <<>>
    /\ screen = [loading |-> TRUE, today |-> <<>>, tomorrow |-> <<>>]

\* (mutant) a refresh leaves the loading flag as it finds it: only the
\* initial value of the flag shows the loading line.
fetchAppointmentsQuiet ==
    /\ issued < MaxFetches
    /\ issued' = issued + 1
    /\ IF ~supabase
       THEN /\ appointments' = <<>>
            /\ loading' = FALSE
            /\ inflight' = inflight
            /\ history' = Append(history, [id |-> issued + 1, kind |-> "unconfigured", rows |-> <<>>])
            /\ Render(<<>>, FALSE)
       ELSE /\ loading' = loading
            /\ inflight' = inflight \cup {[id |-> issued + 1,
                                           today |-> getTodayPacific,
                                           tomorrow |-> getTomorrowPacific]}
            /\ UNCHANGED <<appointments, history>>
            /\ Render(appointments, loading)

\* fetchAppointments up to its await: unconfigured, it stores [] and ends
\* (finally: setLoading(false)); configured, it issues the query for the two
\* dates of the moment and suspends with loading set.
fetchAppointments ==
    /\ issued < MaxFetches
    /\ issued' = issued + 1
    /\ IF ~supabase
       THEN /\ appointments' = <<>>
            /\ loading' = FALSE
            /\ inflight' = inflight
            /\ history' = Append(history, [id |-> issued + 1, kind |-> "unconfigured", rows |-> <<>>])
            /\ Render(<<>>, FALSE)
       ELSE /\ loading' = TRUE
            /\ inflight' = inflight \cup {[id |-> issued + 1,
                                           today |-> getTodayPacific,
                                           tomorrow |-> getTomorrowPacific]}
            /\ UNCHANGED <<appointments, history>>
            /\ Render(appointments, TRUE)

\* useEffect(..., []): the first fetch; the two intervals are set.
Mount ==
    /\ ~mounted
    /\ mounted' = TRUE
    /\ fetchAppointments
    /\ UNCHANGED <<currentTime, now, envVars>>

\* setInterval(fetchAppointments, 5 * 60 * 1000)
DataInterval ==
    /\ mounted
    /\ fetchAppointments
    /\ UNCHANGED <<mounted, currentTime, now, envVars>>

\* setInterval(() => setCurrentTime(new Date()), 60000)
TimeInterval ==
    /\ mounted
    /\ currentTime' = now
    /\ Render(appointments, loading)
    /\ UNCHANGED <<appointments, loading, mounted, inflight, issued, history, now, envVars>>

\* .in('appointment_date', [today, tomorrow]) on the store's rows.
queryResult(req, table) ==
    LET wanted(row) == row.appointment_date \in {req.today, req.tomorrow}
    IN SelectSeq(table, wanted)

settle(req, kind, rows) ==
    /\ inflight' = inflight \ {req}
    /\ history' = Append(history, [id |-> req.id, kind |-> kind, rows |-> rows])
    /\ UNCHANGED <<mounted, currentTime, issued, now, envVars>>

\* (mutant) request sequencing: the answer to a query that is not the
\* latest issued is discarded.
ResolveDataIfLatest(req, table) ==
    /\ req \in inflight
    /\ appointments' = IF req.id = issued THEN queryResult(req, table) ELSE appointments
    /\ loading' = FALSE
    /\ settle(req, "data", queryResult(req, table))
    /\ Render(appointments', FALSE)

\* The await resumes with rows and no error: setAppointments(data), and
\* finally setLoading(false).
ResolveData(req, table) ==
    /\ req \in inflight
    /\ appointments' = queryResult(req, table)
    /\ loading' = FALSE
    /\ settle(req, "data", queryResult(req, table))
    /\ Render(appointments', FALSE)

\* The await resumes with no error and data null: setAppointments(data || []).
ResolveNull(req) ==
    /\ req \in inflight
    /\ appointments' = <<>>
    /\ loading' = FALSE
    /\ settle(req, "null", <<>>)
    /\ Render(<<>>, FALSE)

\* (mutant) a store error stores the empty row set.
ResolveErrorClears(req) ==
    /\ req \in inflight
    /\ appointments' = <<>>
    /\ loading' = FALSE
    /\ settle(req, "error", <<>>)
    /\ Render(<<>>, FALSE)

\* The await resumes with an error: it is logged and the function returns.
ResolveError(req) ==
    /\ req \in inflight
    /\ appointments' = appointments
    /\ loading' = FALSE
    /\ settle(req, "error", <<>>)
    /\ Render(appointments, FALSE)

\* (mutant) no finally block: a thrown request leaves the loading flag set.
ResolveThrowNoFinally(req) ==
    /\ req \in inflight
    /\ appointments' = appointments
    /\ loading' = loading
    /\ settle(req, "thrown", <<>>)
    /\ Render(appointments, loading)

\* The request throws: the catch block logs it.
ResolveThrow(req) ==
    /\ req \in inflight
    /\ appointments' = appointments
    /\ loading' = FALSE
    /\ settle(req, "thrown", <<>>)
    /\ Render(appointments, FALSE)

\* Time passes (nothing is rendered until some state is set).
RECURSIVE DatesFrom(_, _)
DatesFrom(d, n) == IF n = 0 THEN {d} ELSE {d} \cup DatesFrom(NextDay(d), n - 1)

StartDate == <<2024, 2, 28>>

later(clock, total) ==
    IF total >= 1440 THEN [date |-> NextDay(clock.date), mins |-> total - 1440]
    ELSE [date |-> clock.date, mins |-> total]

Advance(delta) ==
    /\ later(now, now.mins + delta).date \in DatesFrom(StartDate, MaxDays)
    /\ now' = later(now, now.mins + delta)
    /\ UNCHANGED <<appointments, loading, currentTime, mounted, inflight, issued, history,
                   todayAppointments, tomorrowAppointments, screen, envVars>>

(***************************************************************************)
(* Inputs: rows of the store, and the environments                         *)
(***************************************************************************)
Row(date, time, name, first, last, offering) ==
    [appointment_date |-> date, appointment_time_12h |-> time, customer_name |-> name,
     client_first_name |-> first, client_last_name |-> last, offering_name |-> offering]

\* The stored time string H:MM AM|PM, mm being the two minute digits.
TimeString(h, mm, period) == NatToStr(h) \o <<":">> \o mm \o <<" ">> \o period

Al == <<"A", "l">>
Bo == <<"B", "o">>
Cy == <<"C", "y">>
OilChange == <<"O", "i", "l", " ", "C", "h", "a", "n", "g", "e">>
TireRotation == <<"T", "i", "r", "e", " ", "R", "o", "t", "a", "t", "i", "o", "n">>

Engines == {"timsort", "insertion"}
HourCycles == {"h23", "h24"}
\* Pacific standard time, UTC, and a zone east of UTC.
Offsets == {-480, 0, 540}

At10am == [date |-> StartDate, mins |-> 600]

\* What the store may hold when a query is answered, in the order of the
\* query (.order('appointment_time', { ascending: true }): by time of day,
\* rows without a time last).
Tables ==
    { <<Row(NextDay(StartDate), TimeString(4, <<"3", "0">>, PM), Bo, Null, Null, TireRotation),
        Row(StartDate, TimeString(9, <<"0", "0">>, PM), Al, Null, Null, OilChange)>>,
      <<Row(StartDate, TimeString(10, <<"1", "5">>, PM), Cy, Null, Null, OilChange),
        Row(StartDate, TimeString(10, <<"1", "5">>, PM), Cy, Null, Null, TireRotation),
        Row(NextDay(StartDate), Null, Null, Null, Null, Null)>>,
      <<>> }

(***************************************************************************)
(* The dashboard: mount, the two intervals, and the store's answers        *)
(***************************************************************************)
Init == InitState({At10am}, {-480, 0}, BOOLEAN, Engines, HourCycles)

AnswerData == \E req \in inflight, table \in Tables : ResolveData(req, table)
AnswerNull == \E req \in inflight : ResolveNull(req)
AnswerError == \E req \in inflight : ResolveError(req)
AnswerThrow == \E req \in inflight : ResolveThrow(req)
TimePasses == Advance(600)

Next ==
    \/ Mount
    \/ DataInterval
    \/ TimeInterval
    \/ AnswerData
    \/ AnswerNull
    \/ AnswerError
    \/ AnswerThrow
    \/ TimePasses

Spec == Init /\ [][Next]_vars

\* The same dashboard in one environment per client configuration, with a
\* store that answers: a query that stays outstanding is eventually settled
\* (with rows, with null, with an error, or by throwing).
InitSettling == InitState({At10am}, {0}, BOOLEAN, {"timsort"}, {"h23"})

Settles == AnswerData \/ AnswerNull \/ AnswerError \/ AnswerThrow

SpecSettling == InitSettling /\ [][Next]_vars /\ WF_vars(Settles)

(***************************************************************************)
(* The helpers under wider inputs.  Each specification below is the same   *)
(* component mounted in a configured environment, with the store answering *)
(* the first query from a set of rows chosen to exercise one helper.       *)
(***************************************************************************)
MaxRows == 3

MinuteStrings == {<<"0", "0">>, <<"1", "5">>, <<"3", "0">>, <<"5", "9">>}
Periods == {AM, PM}
WellFormedTimes == {TimeString(h, mm, p) : h \in 1..12, mm \in MinuteStrings, p \in Periods}

\* '9:15', '915 AM', 'ab:15 PM', '9:15 pm', '9:15PM', 'noon'
MalformedTimes ==
    { <<"9", ":", "1", "5">>,
      <<"9", "1", "5", " ", "A", "M">>,
      <<"a", "b", ":", "1", "5", " ", "P", "M">>,
      <<"9", ":", "1", "5", " ", "p", "m">>,
      <<"9", ":", "1", "5", "P", "M">>,
      <<"n", "o", "o", "n">> }

\* null, '' and the sentinel
AbsentTimes == {Null, <<>>}
TimeInputs == WellFormedTimes \cup MalformedTimes \cup AbsentTimes \cup {NoTime}

\* Tables of at most MaxRows rows drawn from a set of rows.
TablesOver(rows) == UNION {[1..n -> rows] : n \in 0..MaxRows}

\* ---- formatTime: one row of tomorrow, with any time string ----
InitTime == InitState({At10am}, Offsets, {TRUE}, Engines, HourCycles)

AnswerTime ==
    \E req \in inflight, t \in TimeInputs :
        ResolveData(req, <<Row(req.tomorrow, t, Al, Null, Null, OilChange)>>)

NextTime == Mount \/ AnswerTime

SpecTime == InitTime /\ [][NextTime]_vars

\* ---- isAppointmentCurrent: one row of today, at several times of day ----
FilterClocks == {[date |-> StartDate, mins |-> m] : m \in {65, 420, 600, 1020, 1021, 1200}}

FilterTimes ==
    {TimeString(h, mm, p) : h \in {2, 9, 12}, mm \in {<<"0", "0">>, <<"5", "9">>}, p \in Periods}

InitFilter == InitState(FilterClocks, Offsets, {TRUE}, Engines, HourCycles)

AnswerFilter ==
    \E req \in inflight, t \in FilterTimes \cup AbsentTimes \cup {NoTime} :
        ResolveData(req, <<Row(req.today, t, Al, Null, Null, OilChange)>>)

NextFilter == Mount \/ AnswerFilter

SpecFilter == InitFilter /\ [][NextFilter]_vars

\* ---- getTodayPacific / getTomorrowPacific: the dates of the query ----
DateClocks ==
    {[date |-> d, mins |-> m] :
        d \in {<<2024, 2, 28>>, <<2024, 2, 29>>, <<2023, 2, 28>>, <<2024, 12, 31>>, <<2024, 4, 30>>},
        m \in {0, 10, 600, 1430}}

InitDate == InitState(DateClocks, Offsets, {TRUE}, Engines, HourCycles)

NextDate == Mount \/ AnswerNull

SpecDate == InitDate /\ [][NextDate]_vars

\* ---- groupAppointmentsByCustomer: grouping of one date partition ----
\* A customer named by customer_name, by first name only, or not at all;
\* the last row names by first name the customer the first rows name by
\* customer_name.  All rows are of one time, so every order is an order the
\* query can answer in.
GroupRows(date) ==
    {Row(date, TimeString(9, <<"0", "0">>, PM), who[1], who[2], Null, offering) :
        who \in {<<Al, Null>>, <<Null, Bo>>, <<Null, Null>>},
        offering \in {Null, OilChange, TireRotation}}
    \cup {Row(date, TimeString(9, <<"0", "0">>, PM), Null, Al, Null, TireRotation)}

InitGroup == InitState({At10am}, {0}, {TRUE}, Engines, {"h23"})

AnswerGroup ==
    \E req \in inflight : \E table \in TablesOver(GroupRows(req.tomorrow)) :
        ResolveData(req, table)

NextGroup == Mount \/ AnswerGroup

SpecGroup == InitGroup /\ [][NextGroup]_vars

\* ---- groupAppointmentsByCustomer: the order of one date partition ----
\* The stored times in ascending order, a row without a time last.
SortTimes == <<TimeString(9, <<"0", "0">>, AM), TimeString(10, <<"0", "0">>, AM),
               TimeString(1, <<"3", "0">>, PM), Null>>

SortRows(date) ==
    {Row(date, SortTimes[k], who, Null, Null, OilChange) : who \in {Al, Bo, Cy}, k \in 1..Len(SortTimes)}

StoredOrder(row) == CHOOSE k \in 1..Len(SortTimes) : SortTimes[k] = row.appointment_time_12h

\* .order('appointment_time', { ascending: true })
InQueryOrder(table) ==
    \A i, j \in 1..Len(table) : i < j => StoredOrder(table[i]) <= StoredOrder(table[j])

InitSort == InitState({At10am}, {-480, 0}, {TRUE}, Engines, {"h23"})

AnswerSort ==
    \E req \in inflight :
        \E table \in {t \in TablesOver(SortRows(req.tomorrow)) : InQueryOrder(t)} :
            ResolveData(req, table)

NextSort == Mount \/ AnswerSort

SpecSort == InitSort /\ [][NextSort]_vars

(***************************************************************************)
(* Properties                                                              *)
(***************************************************************************)
\* The arithmetic the properties are stated in: a time H:MM AM|PM as an hour
\* of the day, the hour seven hours earlier, and minutes of the day.
RefHour24(h, p) == (h % 12) + (IF p = PM THEN 12 ELSE 0)
RefCorrectedHour(h, p) == (RefHour24(h, p) + 17) % 24
RefMinute(mm) == DigitVal(mm[1]) * 10 + DigitVal(mm[2])
RefCorrectedMinutes(h, mm, p) == RefCorrectedHour(h, p) * 60 + RefMinute(mm)
RefDisplay(h, mm, p) ==
    TimeString(IF RefCorrectedHour(h, p) = 0 THEN 12
               ELSE IF RefCorrectedHour(h, p) > 12 THEN RefCorrectedHour(h, p) - 12
               ELSE RefCorrectedHour(h, p),
               mm,
               IF RefCorrectedHour(h, p) < 12 THEN AM ELSE PM)

\* The grouped appointments of today before the visibility filter.
GroupedToday ==
    groupAppointmentsByCustomer(filterAppointmentsByDate(appointments, getTodayPacific))

InTodayList(g) == \E i \in 1..Len(todayAppointments) : todayAppointments[i] = g

\* C1: a grouped appointment of today with a time is kept in the today list
\* if and only if the current local minutes of the day minus the minutes of
\* the day of its corrected (seven hours earlier) time is at most 180.
C1_KeptIffCorrectedAgeAtMost180 ==
    \A i \in 1..Len(GroupedToday) :
        \A h \in 1..12, mm \in MinuteStrings, p \in Periods :
            GroupedToday[i].appointment_time_12h = TimeString(h, mm, p)
            => (InTodayList(GroupedToday[i])
                <=> now.mins - RefCorrectedMinutes(h, mm, p) <= 180)

\* C2: whatever the process's timezone, the dates queried are the calendar
\* date of the current instant in Pacific time and the day after it.
C2_DateWindowIsPacificDate ==
    \A req \in inflight : req.today = now.date /\ req.tomorrow = NextDay(now.date)

\* C3: for a well-formed time H:MM AM|PM the card shows the 12-hour
\* rendering of (hour24 - 7) mod 24 with the minutes unchanged.
C3_TimeCorrected ==
    \A i \in 1..Len(screen.tomorrow) :
        \A h \in 1..12, mm \in MinuteStrings, p \in Periods :
            tomorrowAppointments[i].appointment_time_12h = TimeString(h, mm, p)
            => screen.tomorrow[i].time = RefDisplay(h, mm, p)

\* The card of a row stored as '12:00 AM' reads '5:00 PM'.
C3_Witness ==
    /\ Len(screen.tomorrow) = 1
    /\ tomorrowAppointments[1].appointment_time_12h
         = <<"1", "2", ":", "0", "0", " ", "A", "M">>
    /\ screen.tomorrow[1].time = <<"5", ":", "0", "0", " ", "P", "M">>

\* C4: a time string that is present, is not the sentinel and does not
\* parse as H:MM AM|PM is shown as it was stored.
C4_MalformedShownUnchanged ==
    \A i \in 1..Len(screen.tomorrow) :
        tomorrowAppointments[i].appointment_time_12h \in MalformedTimes
        => screen.tomorrow[i].time = tomorrowAppointments[i].appointment_time_12h

\* C5: a grouped appointment of today whose time is absent or is the
\* sentinel 'No time' is kept in the today list at every time of day.
C5_AbsentOrSentinelKept ==
    \A i \in 1..Len(GroupedToday) :
        (Falsy(GroupedToday[i].appointment_time_12h)
         \/ GroupedToday[i].appointment_time_12h = NoTime)
        => InTodayList(GroupedToday[i])

\* The rows of tomorrow's partition, and what identifies a row's customer:
\* the display name, else the first name, else the sentinel.
TomorrowRows == filterAppointmentsByDate(appointments, getTomorrowPacific)

RefIdentity(row) == IF row.customer_name # Null THEN row.customer_name
                    ELSE IF row.client_first_name # Null THEN row.client_first_name
                    ELSE WalkIn

RefServiceRows(rows, who) ==
    LET mine(row) == RefIdentity(row) = who /\ row.offering_name # Null
    IN SelectSeq(rows, mine)

RefServices(rows) == [k \in 1..Len(rows) |-> rows[k].offering_name]

\* C6: the rows of one date partition yield exactly one grouped appointment
\* per distinct customer identity, whose services are, in row order, the
\* service names of that customer's rows that carry one.
C6_OneGroupPerCustomerServicesInRowOrder ==
    /\ \A i, j \in 1..Len(tomorrowAppointments) :
          i # j => tomorrowAppointments[i].customer_name # tomorrowAppointments[j].customer_name
    /\ {tomorrowAppointments[i].customer_name : i \in 1..Len(tomorrowAppointments)}
          = {RefIdentity(TomorrowRows[k]) : k \in 1..Len(TomorrowRows)}
    /\ \A i \in 1..Len(tomorrowAppointments) :
          tomorrowAppointments[i].services
            = RefServices(RefServiceRows(TomorrowRows, tomorrowAppointments[i].customer_name))

\* Two rows of one customer, 'Oil Change' then 'Tire Rotation', are one
\* grouped appointment with both services in that order.
C6_Witness ==
    /\ Len(appointments) = 2
    /\ Len(tomorrowAppointments) = 1
    /\ tomorrowAppointments[1].customer_name = Al
    /\ tomorrowAppointments[1].services = <<OilChange, TireRotation>>

\* The corrected time of day, in minutes, of a well-formed stored time.
RefTimeOfDay(t) ==
    LET d == CHOOSE d \in (1..12) \X MinuteStrings \X Periods : TimeString(d[1], d[2], d[3]) = t
    IN RefCorrectedMinutes(d[1], d[2], d[3])

HasTime(g) == g.appointment_time_12h \in WellFormedTimes

\* C7: in a day's list, of two appointments with a time the one listed
\* first has a corrected time of day not later than the other's.
C7_AscendingByCorrectedTime ==
    \A i, j \in 1..Len(tomorrowAppointments) :
        (i < j /\ HasTime(tomorrowAppointments[i]) /\ HasTime(tomorrowAppointments[j]))
        => RefTimeOfDay(tomorrowAppointments[i].appointment_time_12h)
             <= RefTimeOfDay(tomorrowAppointments[j].appointment_time_12h)

\* The index of the first row of a customer.
RefFirstSeen(rows, who) ==
    CHOOSE k \in 1..Len(rows) :
        /\ RefIdentity(rows[k]) = who
        /\ \A m \in 1..(k - 1) : RefIdentity(rows[m]) # who

\* C8: every appointment without a time is listed after every appointment
\* with one, and appointments without a time keep their first-seen order.
C8_AbsentLastInEncounteredOrder ==
    \A i, j \in 1..Len(tomorrowAppointments) :
        i < j =>
          /\ Falsy(tomorrowAppointments[i].appointment_time_12h)
               => Falsy(tomorrowAppointments[j].appointment_time_12h)
          /\ (Falsy(tomorrowAppointments[i].appointment_time_12h)
              /\ Falsy(tomorrowAppointments[j].appointment_time_12h))
               => RefFirstSeen(TomorrowRows, tomorrowAppointments[i].customer_name)
                    < RefFirstSeen(TomorrowRows, tomorrowAppointments[j].customer_name)

Failures == {"error", "thrown", "unconfigured"}
LastSettled == history[Len(history)]

\* C9 as stated: after a failed cycle the today and tomorrow lists are empty.
C9_FailedCycleEmptiesLists ==
    (history # <<>> /\ LastSettled.kind \in Failures)
    => (todayAppointments = <<>> /\ tomorrowAppointments = <<>>)

\* C9, amended: a cycle that fails with a store error or a thrown request
\* leaves the stored rows as they were; a cycle of an unconfigured client
\* stores the empty row set; either way the cycle ends with loading off.
C9_FailureKeepsStoredRows ==
    [][Len(history') = Len(history) + 1 =>
         /\ history'[Len(history')].kind \in {"error", "thrown"}
              => (appointments' = appointments /\ ~loading')
         /\ history'[Len(history')].kind = "unconfigured"
              => (appointments' = <<>> /\ ~loading')]_vars

\* A store error has just been settled and the lists still show the rows of
\* the earlier successful cycle.
C9_Witness ==
    /\ Len(history) = 2
    /\ history[1].kind = "data"
    /\ history[2].kind = "error"
    /\ appointments # <<>>
    /\ todayAppointments # <<>>
    /\ ~loading

\* C10: the stored rows are those of the successful fetch that resolved
\* last (failed cycles in between change nothing), whichever was issued
\* first.
C10_LastResolvedWins ==
    \A k \in 1..Len(history) :
        (/\ history[k].kind = "data"
         /\ \A m \in (k + 1)..Len(history) : history[m].kind \in {"error", "thrown"})
        => appointments = history[k].rows

\* Two overlapping fetches both succeeded, the one issued first resolving
\* last with different rows: its rows are the ones stored.
C10_Witness ==
    /\ Len(history) = 2
    /\ history[1].kind = "data" /\ history[2].kind = "data"
    /\ history[1].id > history[2].id
    /\ history[1].rows # history[2].rows
    /\ appointments = history[2].rows
    /\ inflight = {}

\* A cycle that stored rows: the store answered without an error.
Successes == {"data", "null"}

\* C11 as stated: once a cycle has succeeded, a refresh that is still
\* outstanding leaves the two lists of that cycle on the screen, without the
\* loading line.
C11_HungRefreshKeepsListsOnScreen ==
    (/\ \E i \in 1..Len(history) : history[i].kind \in Successes
     /\ inflight # {})
    => (/\ ~screen.loading
        /\ screen.today = AppointmentColumn(todayAppointments)
        /\ screen.tomorrow = AppointmentColumn(tomorrowAppointments))

\* C11, amended: every fetch that reaches the store, refreshes included, turns
\* the loading line on and leaves the stored rows alone; and as long as no
\* fetch starts or settles, the loading line and the stored rows stay as they
\* are.  A refresh that never resolves therefore keeps the rows of the last
\* successful cycle stored but shows the loading line in place of the lists.
C11_RefreshShowsLoadingUntilSettled ==
    [][/\ (supabase /\ issued' = issued + 1)
            => (/\ loading' /\ screen'.loading
                /\ screen'.today = <<>> /\ screen'.tomorrow = <<>>
                /\ appointments' = appointments)
       /\ (issued' = issued /\ inflight' = inflight)
            => (/\ loading' = loading
                /\ screen'.loading = screen.loading
                /\ appointments' = appointments)]_vars

\* A refresh started after a cycle that stored rows is outstanding: the rows
\* are still stored and the lists still derive from them, but the screen
\* shows the loading line.
C11_Witness ==
    /\ Len(history) = 1
    /\ history[1].kind = "data"
    /\ history[1].rows # <<>>
    /\ appointments = history[1].rows
    /\ \E req \in inflight : req.id > history[1].id
    /\ todayAppointments # <<>>
    /\ loading
    /\ screen = [loading |-> TRUE, today |-> <<>>, tomorrow |-> <<>>]

\* C12: once the component is mounted, whenever no fetch is in flight the
\* loading flag is false; and with a store that settles what stays
\* outstanding, loading always becomes false again.
C12_LoadingFalseWhenNothingInFlight ==
    /\ [](mounted /\ inflight = {} => ~loading)
    /\ [](mounted => <>(~loading))

\* Two overlapping fetches have both settled, the second before the first
\* and by throwing; after the first of the two settlements loading was
\* already false with the other fetch still outstanding.
C12_Witness ==
    /\ mounted
    /\ inflight = {}
    /\ Len(history) = 2
    /\ history[1].id = 2 /\ history[1].kind = "thrown"
    /\ history[2].id = 1
    /\ ~loading

====
